---- MODULE Spec2Model ----
(***************************************************************************)
(* A model of planner.py: the SQLite table `todos`, the store operations   *)
(* (add_todo, mark_done, delete_todo, get_stats), the two list queries     *)
(* (draw_dashboard, draw_completed), the due-date parser parse_due_date    *)
(* and the key-dispatch loop of main().                                    *)
(*                                                                         *)
(* Text is a sequence of one-character strings, so that strip, lower,      *)
(* isdigit, LIKE and the ISO formatting are computed and not assumed.      *)
(* The terminal is assumed tall enough for every addstr of the bounded     *)
(* lists; persistence faults of SQLite are not modelled.                   *)
(***************************************************************************)
EXTENDS Integers, Sequences, FiniteSets, TLC

VARIABLES store,          \* the rows of table todos
          view, cursor_idx, where_clause, params, subtitle,   \* locals of main
          todos,          \* the list main got from the last render
          ch, getstr,     \* the key just handled and the text typed at its last prompt
          pc,             \* "getch": blocked in getch; "quit"; "error": an exception left main
          total, done, progress   \* the footer draw_dashboard last computed

vars == <<store, view, cursor_idx, where_clause, params, subtitle, todos,
          ch, getstr, pc, total, done, progress>>

(***************************************************************************)
(* Bounds.                                                                 *)
(***************************************************************************)
MaxTasks == 2

MaxTotal == 50

(***************************************************************************)
(* Text helpers (Python str methods).                                      *)
(***************************************************************************)
UpperChars == <<"A","B","C","D","E","F","G","H","I","J","K","L","M",
                "N","O","P","Q","R","S","T","U","V","W","X","Y","Z">>

LowerChars == <<"a","b","c","d","e","f","g","h","i","j","k","l","m",
                "n","o","p","q","r","s","t","u","v","w","x","y","z">>

DecimalChars == <<"0","1","2","3","4","5","6","7","8","9">>

\* Characters for which str.isdigit() is true although int() rejects them;
\* "^2" stands for the one character SUPERSCRIPT TWO.
OtherDigitChars == {"^2"}

WhiteChars == {" ", "\t", "\n"}

Range(s) == {s[i] : i \in 1..Len(s)}

IndexOf(c, s) == CHOOSE i \in 1..Len(s) : s[i] = c

LowerChar(c) == IF c \in Range(UpperChars) THEN LowerChars[IndexOf(c, UpperChars)] ELSE c

lower(s) == [i \in 1..Len(s) |-> LowerChar(s[i])]

RECURSIVE lstrip(_)
lstrip(s) == IF s # <<>> /\ Head(s) \in WhiteChars THEN lstrip(Tail(s)) ELSE s

RECURSIVE rstrip(_)
rstrip(s) == IF s # <<>> /\ s[Len(s)] \in WhiteChars
             THEN rstrip(SubSeq(s, 1, Len(s) - 1)) ELSE s

strip(s) == rstrip(lstrip(s))

startswith(s, c) == s # <<>> /\ Head(s) = c

endswith(s, c) == s # <<>> /\ s[Len(s)] = c

\* s[1:-1]
Inner(s) == IF Len(s) >= 2 THEN SubSeq(s, 2, Len(s) - 1) ELSE <<>>

isdigit(s) == s # <<>> /\ \A i \in 1..Len(s) : s[i] \in Range(DecimalChars) \cup OtherDigitChars

\* int(s) raises ValueError on a character that is not a decimal digit.
IntOk(s) == \A i \in 1..Len(s) : s[i] \in Range(DecimalChars)

RECURSIVE int(_)
int(s) == IF s = <<>> THEN 0
          ELSE 10 * int(SubSeq(s, 1, Len(s) - 1)) + (IndexOf(s[Len(s)], DecimalChars) - 1)

\* "%0<w>d" for a non-negative n
RECURSIVE Pad(_, _)
Pad(n, w) == IF w = 0 THEN <<>> ELSE Append(Pad(n \div 10, w - 1), DecimalChars[(n % 10) + 1])

(***************************************************************************)
(* Calendar dates (datetime.date), held as proleptic Gregorian ordinals.   *)
(***************************************************************************)
\* date.max.toordinal(): date + timedelta raises OverflowError beyond it
MaxOrdinal == 3652059

\* timedelta(days=n) raises OverflowError when n exceeds this magnitude
MaxDeltaDays == 999999999

is_leap(y) == y % 4 = 0 /\ (y % 100 # 0 \/ y % 400 = 0)

days_in_month(y, m) == IF m = 2 THEN (IF is_leap(y) THEN 29 ELSE 28)
                       ELSE IF m \in {4, 6, 9, 11} THEN 30 ELSE 31

RECURSIVE days_before_month(_, _)
days_before_month(y, m) == IF m = 1 THEN 0
                           ELSE days_before_month(y, m - 1) + days_in_month(y, m - 1)

days_before_year(y) == (y - 1) * 365 + ((y - 1) \div 4) - ((y - 1) \div 100) + ((y - 1) \div 400)

ymd2ord(y, m, d) == days_before_year(y) + days_before_month(y, m) + d

ord2ymd(ord) ==
    LET n0   == ord - 1
        n400 == n0 \div 146097
        r400 == n0 % 146097
        n100 == r400 \div 36524
        r100 == r400 % 36524
        n4   == r100 \div 1461
        r4   == r100 % 1461
        n1   == r4 \div 365
        n    == r4 % 365
        year == n400 * 400 + 1 + n100 * 100 + n4 * 4 + n1
        month == CHOOSE m \in 1..12 :
                    /\ days_before_month(year, m) <= n
                    /\ n < days_before_month(year, m) + days_in_month(year, m)
    IN  IF n1 = 4 \/ n100 = 4 THEN <<year - 1, 12, 31>>
        ELSE <<year, month, n - days_before_month(year, month) + 1>>

\* date.isoformat(): "%04d-%02d-%02d"
isoformat(ord) ==
    LET ymd == ord2ymd(ord)
    IN  Pad(ymd[1], 4) \o <<"-">> \o Pad(ymd[2], 2) \o <<"-">> \o Pad(ymd[3], 2)

\* date.today(); the session is short enough for the day not to change
Today == ymd2ord(2025, 1, 10)

\* dateutil's parser on the inputs of this model: a well-formed ISO date
\* parses to that date, text without any digit raises ParserError.
IsIsoDate(s) ==
    /\ Len(s) = 10
    /\ s[5] = "-" /\ s[8] = "-"
    /\ IntOk(SubSeq(s, 1, 4)) /\ IntOk(SubSeq(s, 6, 7)) /\ IntOk(SubSeq(s, 9, 10))
    /\ int(SubSeq(s, 1, 4)) >= 1
    /\ int(SubSeq(s, 6, 7)) \in 1..12
    /\ int(SubSeq(s, 9, 10)) \in 1..days_in_month(int(SubSeq(s, 1, 4)), int(SubSeq(s, 6, 7)))

date_parser_parse(s) ==
    IF IsIsoDate(s)
    THEN [ok |-> TRUE,
          date |-> ymd2ord(int(SubSeq(s, 1, 4)), int(SubSeq(s, 6, 7)), int(SubSeq(s, 9, 10)))]
    ELSE [ok |-> FALSE, date |-> 0]

Return(v) == [raised |-> FALSE, value |-> v]

Raise == [raised |-> TRUE, value |-> <<>>]

\* today + timedelta(days=n)
PlusDays(today, n) == IF n > MaxDeltaDays \/ today + n > MaxOrdinal
                      THEN Raise ELSE Return(isoformat(today + n))

s_today == <<"t","o","d","a","y">>

s_tomorrow == <<"t","o","m","o","r","r","o","w">>

parse_due_date(raw, today) ==
    LET s == lower(strip(raw))
    IN  IF s = <<>> THEN Return(<<>>)
        ELSE IF s = s_today THEN Return(isoformat(today))
        ELSE IF s = s_tomorrow THEN PlusDays(today, 1)
        ELSE IF startswith(s, "+") /\ endswith(s, "d") /\ isdigit(Inner(s))
             THEN (IF IntOk(Inner(s)) THEN PlusDays(today, int(Inner(s))) ELSE Raise)
        ELSE IF startswith(s, "+") /\ endswith(s, "w") /\ isdigit(Inner(s))
             THEN (IF IntOk(Inner(s)) THEN PlusDays(today, 7 * int(Inner(s))) ELSE Raise)
        ELSE IF date_parser_parse(s).ok THEN Return(isoformat(date_parser_parse(s).date))
        ELSE Return(s)

(***************************************************************************)
(* The table `todos` is a set of rows keyed by id; done and deleted are    *)
(* the INTEGER columns 0/1.                                                *)
(***************************************************************************)
Ids(st) == {r.id : r \in st}

MaxId(st) == CHOOSE i \in Ids(st) : \A j \in Ids(st) : j <= i

\* INTEGER PRIMARY KEY: the new rowid is one more than the largest in use
NextId(st) == IF st = {} THEN 1 ELSE MaxId(st) + 1

add_todo(st, title, category, due) ==
    st \cup {[id |-> NextId(st), title |-> title, category |-> category,
              due |-> due, done |-> 0, deleted |-> 0]}

\* mutant: done is flipped instead of set
mark_done_toggle(st, tid) == {IF r.id = tid THEN [r EXCEPT !.done = 1 - r.done] ELSE r : r \in st}

\* mutant: UPDATE without its WHERE id=? marks every row
mark_done_all(st, tid) == {[r EXCEPT !.done = 1] : r \in st}

mark_done(st, tid) == {IF r.id = tid THEN [r EXCEPT !.done = 1] ELSE r : r \in st}

\* mutant: the row is removed (DELETE FROM) instead of flagged
delete_todo_hard(st, tid) == {r \in st : r.id # tid}

delete_todo(st, tid) == {IF r.id = tid THEN [r EXCEPT !.deleted = 1] ELSE r : r \in st}

\* SQLite LIKE: % is any run of characters, _ any one character, letters
\* compare without regard to ASCII case
RECURSIVE Like(_, _)
Like(pat, txt) ==
    IF pat = <<>> THEN txt = <<>>
    ELSE IF Head(pat) = "%"
         THEN Like(Tail(pat), txt) \/ (txt # <<>> /\ Like(pat, Tail(txt)))
    ELSE /\ txt # <<>>
         /\ (Head(pat) = "_" \/ LowerChar(Head(pat)) = LowerChar(Head(txt)))
         /\ Like(Tail(pat), Tail(txt))

w_none == ""

w_category == "AND category=?"

w_title == "AND title LIKE ?"

\* the row satisfies the interpolated where_clause with its bound params
Where(r, wc, ps) ==
    IF wc = w_category THEN r.category = ps[1]
    ELSE IF wc = w_title THEN Like(ps[1], r.title)
    ELSE TRUE

\* mutant: the total is counted over the rows still to do
get_stats_active(st, wc, ps) ==
    <<Cardinality({r \in st : r.done = 0 /\ r.deleted = 0 /\ Where(r, wc, ps)}),
      Cardinality({r \in st : r.done = 1 /\ r.deleted = 0 /\ Where(r, wc, ps)})>>

get_stats(st, wc, ps) ==
    <<Cardinality({r \in st : r.deleted = 0 /\ Where(r, wc, ps)}),
      Cardinality({r \in st : r.done = 1 /\ r.deleted = 0 /\ Where(r, wc, ps)})>>

\* mutant: ORDER BY id ASC
RECURSIVE OrderByIdAsc(_)
OrderByIdAsc(rows) ==
    IF rows = {} THEN <<>>
    ELSE LET low == CHOOSE r \in rows : \A q \in rows : q.id >= r.id
         IN  <<low>> \o OrderByIdAsc(rows \ {low})

\* ORDER BY id DESC
RECURSIVE OrderByIdDesc(_)
OrderByIdDesc(rows) ==
    IF rows = {} THEN <<>>
    ELSE LET top == CHOOSE r \in rows : \A q \in rows : q.id <= r.id
         IN  <<top>> \o OrderByIdDesc(rows \ {top})

\* mutant: the dashboard query without its done=0 condition
draw_dashboard_done(st, wc, ps) ==
    OrderByIdDesc({r \in st : r.deleted = 0 /\ Where(r, wc, ps)})

\* mutant: the dashboard query without its deleted=0 condition
draw_dashboard_all(st, wc, ps) ==
    OrderByIdDesc({r \in st : r.done = 0 /\ Where(r, wc, ps)})

\* the rows draw_dashboard fetches and returns
draw_dashboard(st, wc, ps) ==
    OrderByIdDesc({r \in st : r.deleted = 0 /\ r.done = 0 /\ Where(r, wc, ps)})

\* mutant: the completed query without its done=1 condition
draw_completed_any(st) == OrderByIdDesc({r \in st : r.deleted = 0})

\* the rows draw_completed fetches
draw_completed(st) == OrderByIdDesc({r \in st : r.deleted = 0 /\ r.done = 1})

(***************************************************************************)
(* Python float arithmetic (IEEE 754 binary64, round to nearest, ties to   *)
(* even).  A positive float is its 53 significand bits, most significant   *)
(* first, and the exponent of the leading bit; the magnitudes met here     *)
(* are far from the subnormal and overflow ranges.                         *)
(***************************************************************************)
SigBits == 53

RECURSIVE Pow2(_)
Pow2(n) == IF n = 0 THEN 1 ELSE 2 * Pow2(n - 1)

RECURSIVE FromBits(_)
FromBits(b) == IF b = <<>> THEN 0 ELSE 2 * FromBits(SubSeq(b, 1, Len(b) - 1)) + b[Len(b)]

\* Long numbers are handled nine bits at a time (limbs below 512, most
\* significant first), which keeps every product inside the integers.
BitsOfLimbs(l) ==
    [i \in 1..(9 * Len(l)) |-> (l[((i - 1) \div 9) + 1] \div Pow2(8 - ((i - 1) % 9))) % 2]

LimbsOfBits(b) ==
    LET n   == (Len(b) + 8) \div 9
        pad == [i \in 1..(9 * n - Len(b)) |-> 0] \o b
    IN  [k \in 1..n |-> FromBits(SubSeq(pad, 9 * k - 8, 9 * k))]

StripZeros(b) ==
    IF \A i \in 1..Len(b) : b[i] = 0 THEN <<>>
    ELSE LET first == CHOOSE i \in 1..Len(b) : b[i] = 1 /\ \A j \in 1..(i - 1) : b[j] = 0
         IN  SubSeq(b, first, Len(b))

\* b + 1 on a bit string; an all-ones string grows by one bit
IncBits(b) ==
    IF \A i \in 1..Len(b) : b[i] = 1 THEN <<1>> \o [i \in 1..Len(b) |-> 0]
    ELSE LET z == CHOOSE i \in 1..Len(b) : b[i] = 0 /\ \A j \in (i + 1)..Len(b) : b[j] = 1
         IN  [i \in 1..Len(b) |-> IF i < z THEN b[i] ELSE IF i = z THEN 1 ELSE 0]

\* limbs * k + carry for a small k, carrying from the least significant limb
RECURSIVE MulLimbs(_, _, _)
MulLimbs(l, k, carry) ==
    IF l = <<>> THEN <<carry>>
    ELSE LET v == l[Len(l)] * k + carry
         IN  Append(MulLimbs(SubSeq(l, 1, Len(l) - 1), k, v \div 512), v % 512)

\* b * k on a bit string, for 0 < k < 512
MulBits(b, k) == StripZeros(BitsOfLimbs(MulLimbs(LimbsOfBits(b), k, 0)))

\* n further quotient limbs of r / t (r < t) and the remainder left
RECURSIVE DivLimbs(_, _, _)
DivLimbs(r, t, n) ==
    IF n = 0 THEN <<<<>>, r>>
    ELSE LET rest == DivLimbs((512 * r) % t, t, n - 1)
         IN  <<<<(512 * r) \div t>> \o rest[1], rest[2]>>

\* the first n bits of the fraction r / t (r < t), and whether more follow
DivBits(r, t, n) ==
    LET q    == DivLimbs(r, t, (n + 8) \div 9)
        bits == BitsOfLimbs(q[1])
    IN  <<SubSeq(bits, 1, n), q[2] # 0 \/ \E i \in (n + 1)..Len(bits) : bits[i] = 1>>

FloatZero == [zero |-> TRUE, bits |-> <<>>, exp |-> 0]

\* the float nearest to 1.b[2]b[3]... * 2^e (b[1] = 1, Len(b) >= SigBits),
\* `sticky` telling that the exact value has non-zero bits beyond b
RoundNearestEven(b, sticky, e) ==
    LET kept  == SubSeq(b, 1, SigBits)
        guard == IF Len(b) > SigBits THEN b[SigBits + 1] ELSE 0
        below == sticky \/ \E i \in (SigBits + 2)..Len(b) : b[i] = 1
        up    == guard = 1 /\ (below \/ kept[SigBits] = 1)
        inc   == IncBits(kept)
    IN  IF ~up THEN [zero |-> FALSE, bits |-> kept, exp |-> e]
        ELSE IF Len(inc) > SigBits
             THEN [zero |-> FALSE, bits |-> SubSeq(inc, 1, SigBits), exp |-> e + 1]
        ELSE [zero |-> FALSE, bits |-> inc, exp |-> e]

\* the exponent e with t * 2^e <= d < t * 2^(e+1), for 0 < d <= t
RECURSIVE QuotExp(_, _)
QuotExp(d, t) == IF d >= t THEN 0 ELSE QuotExp(2 * d, t) - 1

\* int / int true division, for 0 <= d <= t and t > 0
TrueDiv(d, t) ==
    IF d = 0 THEN FloatZero
    ELSE LET e == QuotExp(d, t)
             n == d * Pow2(0 - e)
             q == DivBits(n - t, t, SigBits)
         IN  RoundNearestEven(<<1>> \o q[1], q[2], e)

\* float * k for a small positive integer k (k is itself a float)
FloatMul(x, k) ==
    IF x.zero THEN FloatZero
    ELSE LET p == MulBits(x.bits, k)
         IN  RoundNearestEven(p, FALSE, x.exp - (SigBits - 1) + (Len(p) - 1))

\* int(x): truncation of a non-negative float below 2^31
FloatToInt(x) ==
    IF x.zero \/ x.exp < 0 THEN 0 ELSE FromBits(SubSeq(x.bits, 1, x.exp + 1))

\* progress = int((done / total) * 100) if total else 0
Progress(t, d) == IF t # 0 THEN FloatToInt(FloatMul(TrueDiv(d, t), 100)) ELSE 0

(***************************************************************************)
(* What the user can type, within bounds.                                  *)
(***************************************************************************)
s_Xyzzy == <<"X","y","z","z","y">>

\* "+3000000d": a day count that carries today past date.max
s_far == <<"+","3","0","0","0","0","0","0","d">>

t_a == <<"a">>

t_Ab == <<"A","b">>

c_work == <<"w","o","r","k">>

c_home == <<"h","o","m","e">>

\* (title, category, due) as typed at the three prompts of `a`
AddInputs == {<<t_a, c_work, s_today>>, <<t_Ab, c_home, <<>>>>,
              <<<<>>, <<>>, s_Xyzzy>>, <<t_a, c_home, s_far>>}

FilterInputs == {<<>>, c_work, c_home}

SearchInputs == {<<>>, <<"a">>, <<"b">>, <<"_">>}

Keys == {"KEY_UP", "KEY_DOWN", "a", "d", "x", "c", "f", "/", "b", "q", "z"}

s_filtered == <<"F","i","l","t","e","r","e","d"," ","b","y"," ","#">>

s_search == <<"S","e","a","r","c","h"," ","r","e","s","u","l","t","s"," ","f","o","r"," ","'">>

(***************************************************************************)
(* main(): one action is one turn of the loop, from the key read by getch  *)
(* through its handler to the next render.                                 *)
(***************************************************************************)
Init ==
    /\ store = {}
    /\ view = "dashboard"
    /\ cursor_idx = 0
    /\ where_clause = w_none
    /\ params = <<>>
    /\ subtitle = <<>>
    /\ todos = <<>>
    /\ ch = ""
    /\ getstr = <<>>
    /\ pc = "getch"
    /\ total = 0 /\ done = 0 /\ progress = 0

\* the top of the loop: todos = [], then the draw of the current view
Render ==
    IF pc' # "getch" THEN UNCHANGED <<todos, total, done, progress>>
    ELSE IF view' = "dashboard"
    THEN LET st == get_stats(store', where_clause', params')
         IN  /\ todos' = draw_dashboard(store', where_clause', params')
             /\ total' = st[1]
             /\ done' = st[2]
             /\ progress' = Progress(st[1], st[2])
    ELSE /\ todos' = <<>>
         /\ UNCHANGED <<total, done, progress>>

\* mutant: the cursor stops at the ends of the list instead of wrapping
MoveCursor_clamp(delta) ==
    /\ pc = "getch" /\ view = "dashboard"
    /\ ch' = IF delta = -1 THEN "KEY_UP" ELSE "KEY_DOWN"
    /\ cursor_idx' = IF todos = <<>> THEN cursor_idx
                     ELSE IF cursor_idx + delta < 0 THEN 0
                     ELSE IF cursor_idx + delta >= Len(todos) THEN Len(todos) - 1
                     ELSE cursor_idx + delta
    /\ getstr' = <<>>
    /\ UNCHANGED <<store, view, where_clause, params, subtitle, pc>>
    /\ Render

\* KEY_UP (delta = -1) and KEY_DOWN (delta = 1) in the dashboard
MoveCursor(delta) ==
    /\ pc = "getch" /\ view = "dashboard"
    /\ ch' = IF delta = -1 THEN "KEY_UP" ELSE "KEY_DOWN"
    /\ cursor_idx' = IF todos # <<>> THEN (cursor_idx + delta) % Len(todos) ELSE cursor_idx
    /\ getstr' = <<>>
    /\ UNCHANGED <<store, view, where_clause, params, subtitle, pc>>
    /\ Render

\* `a` in the dashboard
Add(title, category, due) ==
    /\ pc = "getch" /\ view = "dashboard"
    /\ Cardinality(store) < MaxTasks
    /\ ch' = "a"
    /\ getstr' = due
    /\ LET parsed == parse_due_date(due, Today)
       IN  IF parsed.raised
           THEN /\ pc' = "error"
                /\ UNCHANGED <<store, cursor_idx, where_clause, params, subtitle>>
           ELSE /\ store' = add_todo(store, title, category, parsed.value)
                /\ cursor_idx' = 0
                /\ where_clause' = w_none
                /\ params' = <<>>
                /\ subtitle' = <<>>
                /\ pc' = pc
    /\ UNCHANGED view
    /\ Render

\* todos[cursor_idx][0], an IndexError when the index is out of range
Selected == IF cursor_idx < Len(todos)
            THEN [raised |-> FALSE, value |-> todos[cursor_idx + 1].id]
            ELSE [raised |-> TRUE, value |-> 0]

\* `d` in the dashboard
MarkDone ==
    /\ pc = "getch" /\ view = "dashboard"
    /\ ch' = "d"
    /\ IF todos = <<>> THEN UNCHANGED <<store, cursor_idx, pc>>
       ELSE IF Selected.raised THEN pc' = "error" /\ UNCHANGED <<store, cursor_idx>>
       ELSE /\ store' = mark_done(store, Selected.value)
            /\ cursor_idx' = 0
            /\ pc' = pc
    /\ getstr' = <<>>
    /\ UNCHANGED <<view, where_clause, params, subtitle>>
    /\ Render

\* mutant: `x` leaves the cursor where it was
Delete_keep ==
    /\ pc = "getch" /\ view = "dashboard"
    /\ ch' = "x"
    /\ IF todos = <<>> THEN UNCHANGED <<store, pc>>
       ELSE IF Selected.raised THEN pc' = "error" /\ UNCHANGED store
       ELSE /\ store' = delete_todo(store, Selected.value)
            /\ pc' = pc
    /\ getstr' = <<>>
    /\ UNCHANGED <<view, cursor_idx, where_clause, params, subtitle>>
    /\ Render

\* `x` in the dashboard
Delete ==
    /\ pc = "getch" /\ view = "dashboard"
    /\ ch' = "x"
    /\ IF todos = <<>> THEN UNCHANGED <<store, cursor_idx, pc>>
       ELSE IF Selected.raised THEN pc' = "error" /\ UNCHANGED <<store, cursor_idx>>
       ELSE /\ store' = delete_todo(store, Selected.value)
            /\ cursor_idx' = 0
            /\ pc' = pc
    /\ getstr' = <<>>
    /\ UNCHANGED <<view, where_clause, params, subtitle>>
    /\ Render

\* `c` in the dashboard
SwitchCompleted ==
    /\ pc = "getch" /\ view = "dashboard"
    /\ ch' = "c"
    /\ view' = "completed"
    /\ getstr' = <<>>
    /\ UNCHANGED <<store, cursor_idx, where_clause, params, subtitle, pc>>
    /\ Render

\* mutant: the cursor reset sits outside `if cat:`
SetFilter_reset(cat) ==
    /\ pc = "getch" /\ view = "dashboard"
    /\ ch' = "f"
    /\ getstr' = cat
    /\ IF cat # <<>>
       THEN /\ where_clause' = w_category
            /\ params' = <<cat>>
            /\ subtitle' = s_filtered \o cat
       ELSE UNCHANGED <<where_clause, params, subtitle>>
    /\ cursor_idx' = 0
    /\ UNCHANGED <<store, view, pc>>
    /\ Render

\* `f` in the dashboard
SetFilter(cat) ==
    /\ pc = "getch" /\ view = "dashboard"
    /\ ch' = "f"
    /\ getstr' = cat
    /\ IF cat # <<>>
       THEN /\ where_clause' = w_category
            /\ params' = <<cat>>
            /\ subtitle' = s_filtered \o cat
            /\ cursor_idx' = 0
       ELSE UNCHANGED <<where_clause, params, subtitle, cursor_idx>>
    /\ UNCHANGED <<store, view, pc>>
    /\ Render

\* mutant: the search sets its clause but not its subtitle
SetSearch_nosub(query) ==
    /\ pc = "getch" /\ view = "dashboard"
    /\ ch' = "/"
    /\ getstr' = query
    /\ IF query # <<>>
       THEN /\ where_clause' = w_title
            /\ params' = <<<<"%">> \o query \o <<"%">>>>
            /\ cursor_idx' = 0
       ELSE UNCHANGED <<where_clause, params, cursor_idx>>
    /\ UNCHANGED <<store, view, pc, subtitle>>
    /\ Render

\* `/` in the dashboard
SetSearch(query) ==
    /\ pc = "getch" /\ view = "dashboard"
    /\ ch' = "/"
    /\ getstr' = query
    /\ IF query # <<>>
       THEN /\ where_clause' = w_title
            /\ params' = <<<<"%">> \o query \o <<"%">>>>
            /\ subtitle' = s_search \o query \o <<"'">>
            /\ cursor_idx' = 0
       ELSE UNCHANGED <<where_clause, params, subtitle, cursor_idx>>
    /\ UNCHANGED <<store, view, pc>>
    /\ Render

\* `b` in the dashboard
ClearFilter ==
    /\ pc = "getch" /\ view = "dashboard"
    /\ ch' = "b"
    /\ where_clause' = w_none
    /\ params' = <<>>
    /\ subtitle' = <<>>
    /\ cursor_idx' = 0
    /\ getstr' = <<>>
    /\ UNCHANGED <<store, view, pc>>
    /\ Render

\* mutant: coming back also drops the filter, as `b` does in the dashboard
SwitchDashboard_clear ==
    /\ pc = "getch" /\ view = "completed"
    /\ ch' = "b"
    /\ view' = "dashboard"
    /\ cursor_idx' = 0
    /\ where_clause' = w_none
    /\ params' = <<>>
    /\ subtitle' = <<>>
    /\ getstr' = <<>>
    /\ UNCHANGED <<store, pc>>
    /\ Render

\* `b` in the completed view
SwitchDashboard ==
    /\ pc = "getch" /\ view = "completed"
    /\ ch' = "b"
    /\ view' = "dashboard"
    /\ cursor_idx' = 0
    /\ getstr' = <<>>
    /\ UNCHANGED <<store, where_clause, params, subtitle, pc>>
    /\ Render

\* mutant: the cursor keys are handled before the view is looked at
IgnoredKey_cursor(k) ==
    /\ pc = "getch"
    /\ IF view = "completed" THEN k \notin {"b", "q"} ELSE k = "z"
    /\ ch' = k
    /\ getstr' = <<>>
    /\ cursor_idx' = IF k = "KEY_DOWN" THEN cursor_idx + 1 ELSE cursor_idx
    /\ UNCHANGED <<store, view, where_clause, params, subtitle, pc>>
    /\ Render

\* a key no branch of the current view handles
IgnoredKey(k) ==
    /\ pc = "getch"
    /\ IF view = "completed" THEN k \notin {"b", "q"} ELSE k = "z"
    /\ ch' = k
    /\ getstr' = <<>>
    /\ UNCHANGED <<store, view, cursor_idx, where_clause, params, subtitle, pc>>
    /\ Render

\* `q` in either view
Quit ==
    /\ pc = "getch"
    /\ ch' = "q"
    /\ pc' = "quit"
    /\ getstr' = <<>>
    /\ UNCHANGED <<store, view, cursor_idx, where_clause, params, subtitle>>
    /\ Render

Next ==
    \/ \E delta \in {-1, 1} : MoveCursor(delta)
    \/ \E i \in AddInputs : Add(i[1], i[2], i[3])
    \/ MarkDone
    \/ Delete
    \/ SwitchCompleted
    \/ \E cat \in FilterInputs : SetFilter(cat)
    \/ \E query \in SearchInputs : SetSearch(query)
    \/ ClearFilter
    \/ SwitchDashboard
    \/ \E k \in Keys : IgnoredKey(k)
    \/ Quit

Spec == Init /\ [][Next]_vars

(***************************************************************************)
(* The footer arithmetic of draw_dashboard on its own: get_stats hands     *)
(* back any pair with 0 <= done <= total, the draw derives progress.       *)
(***************************************************************************)
InitFooter ==
    /\ store = {}
    /\ view = "dashboard"
    /\ cursor_idx = 0
    /\ where_clause = w_none
    /\ params = <<>>
    /\ subtitle = <<>>
    /\ todos = <<>>
    /\ ch = ""
    /\ getstr = <<>>
    /\ pc = "stats"
    /\ total \in 0..MaxTotal
    /\ done \in 0..total
    /\ progress = 0

DrawFooter ==
    /\ pc = "stats"
    /\ progress' = Progress(total, done)
    /\ pc' = "drawn"
    /\ UNCHANGED <<store, view, cursor_idx, where_clause, params, subtitle, todos,
                   ch, getstr, total, done>>

NextFooter == DrawFooter

SpecFooter == InitFooter /\ [][NextFooter]_vars

(***************************************************************************)
(* Properties.                                                             *)
(***************************************************************************)
\* every predicate the bounded inputs can set, as (where_clause, params)
Predicates ==
    {<<w_none, <<>>>>}
    \cup {<<w_category, <<c>>>> : c \in FilterInputs \ {<<>>}}
    \cup {<<w_title, <<<<"%">> \o q \o <<"%">>>>>> : q \in SearchInputs \ {<<>>}}

Row(st, i) == CHOOSE r \in st : r.id = i

ListIds(l) == {l[i].id : i \in 1..Len(l)}

DeletedIds(st) == {r.id : r \in {q \in st : q.deleted = 1}}

Rendered == pc = "getch" /\ view = "dashboard"

\* C1: a soft-deleted task is in no dashboard list and not in the completed
\* list, the stats are those of the store without its deleted rows, and a
\* deleted task stays deleted (and so hidden) under every later command.
C1_DeletedNeverVisible ==
    /\ [](/\ ListIds(todos) \cap DeletedIds(store) = {}
          /\ ListIds(draw_completed(store)) \cap DeletedIds(store) = {}
          /\ \A p \in Predicates :
                /\ ListIds(draw_dashboard(store, p[1], p[2])) \cap DeletedIds(store) = {}
                /\ get_stats(store, p[1], p[2])
                     = get_stats({r \in store : r.deleted = 0}, p[1], p[2])
          /\ Rendered =>
                <<total, done>> = get_stats({r \in store : r.deleted = 0}, where_clause, params))
    /\ [][DeletedIds(store) \subseteq DeletedIds(store')]_vars

C1_Witness ==
    /\ pc = "getch" /\ view = "completed"
    /\ \E r \in store : r.deleted = 1
    /\ \E r \in store : r.deleted = 0 /\ r.done = 1

StrictlyDescending(l) == \A i \in 1..Len(l) : \A j \in 1..Len(l) : i < j => l[i].id > l[j].id

\* C2: the active list for a predicate holds exactly the rows that are not
\* deleted, not done and match it, the completed list exactly the rows not
\* deleted and done; both strictly descending by id; a new row's id exceeds
\* every id in use, so that order is newest first.
C2_ListsExactAndNewestFirst ==
    /\ [](/\ \A p \in Predicates :
                LET l == draw_dashboard(store, p[1], p[2])
                IN  /\ Range(l) = {r \in store : r.deleted = 0 /\ r.done = 0 /\ Where(r, p[1], p[2])}
                    /\ StrictlyDescending(l)
          /\ Range(draw_completed(store)) = {r \in store : r.deleted = 0 /\ r.done = 1}
          /\ StrictlyDescending(draw_completed(store))
          /\ Rendered => todos = draw_dashboard(store, where_clause, params)
          /\ (/\ Rendered /\ where_clause = w_none /\ Cardinality(store) = 2
              /\ \A r \in store : r.done = 0 /\ r.deleted = 0)
                => todos = <<Row(store, 2), Row(store, 1)>>)
    /\ [][\A r \in store' : r.id \notin Ids(store) => \A q \in store : q.id < r.id]_vars

C2_Witness ==
    /\ Rendered /\ where_clause = w_title /\ Len(todos) = 2
    /\ todos[1].title # todos[2].title

CountMatching(l, wc, ps) == Cardinality({i \in 1..Len(l) : Where(l[i], wc, ps)})

\* C3: for every predicate, total counts the rows not deleted that match it,
\* done or not, and completed the done ones among them; the footer is
\* computed with the predicate of the visible list, and completed <= total.
C3_StatsCountNonDeleted ==
    /\ \A p \in Predicates :
          LET st == get_stats(store, p[1], p[2])
          IN  /\ st[1] = Cardinality({r \in store : r.deleted = 0 /\ Where(r, p[1], p[2])})
              /\ st[2] = CountMatching(draw_completed(store), p[1], p[2])
              /\ st[1] = Len(draw_dashboard(store, p[1], p[2])) + st[2]
    /\ Rendered =>
          /\ <<total, done>> = get_stats(store, where_clause, params)
          /\ total = Len(todos) + done
          /\ done <= total

C3_Witness ==
    /\ Rendered /\ where_clause = w_category
    /\ Cardinality(store) = 2 /\ total = 1 /\ done = 1

\* the store add(A), add(B), markDone(B) leave behind, seen right after the
\* `d` on the unfiltered dashboard
AfterAddAddDone ==
    /\ Rendered /\ ch = "d" /\ where_clause = w_none
    /\ Ids(store) = {1, 2}
    /\ \A r \in store : r.deleted = 0 /\ r.done = (IF r.id = 2 THEN 1 ELSE 0)

\* C4 as stated: after add(A), add(B), markDone(B) the active list is [A],
\* the completed list is [B] and stats(None) = (1, 0).
C4_StatsOneZero ==
    AfterAddAddDone =>
        /\ todos = <<Row(store, 1)>>
        /\ draw_completed(store) = <<Row(store, 2)>>
        /\ get_stats(store, w_none, <<>>) = <<1, 0>>
        /\ <<total, done>> = <<1, 0>>

\* C4 amended: after add(A), add(B), markDone(B) the active list is [A],
\* the completed list is [B] and stats(None) = (2, 1).
C4_StatsTwoOne ==
    AfterAddAddDone =>
        /\ todos = <<Row(store, 1)>>
        /\ draw_dashboard(store, w_none, <<>>) = <<Row(store, 1)>>
        /\ draw_completed(store) = <<Row(store, 2)>>
        /\ get_stats(store, w_none, <<>>) = <<2, 1>>
        /\ <<total, done>> = <<2, 1>>

C4_Witness == AfterAddAddDone /\ progress = 50

\* C5: marking done and soft-deleting are idempotent and total: for every
\* id, present or not, done or deleted already, twice is the same as once,
\* no row is lost, and an id not in the table leaves the table as it is.
C5_IdempotentAndTotal ==
    \A tid \in 0..(MaxTasks + 1) :
        /\ mark_done(mark_done(store, tid), tid) = mark_done(store, tid)
        /\ delete_todo(delete_todo(store, tid), tid) = delete_todo(store, tid)
        /\ Ids(mark_done(store, tid)) = Ids(store)
        /\ Ids(delete_todo(store, tid)) = Ids(store)
        /\ tid \notin Ids(store) =>
              mark_done(store, tid) = store /\ delete_todo(store, tid) = store
        /\ (\E r \in store : r.id = tid /\ r.done = 1) => mark_done(store, tid) = store
        /\ (\E r \in store : r.id = tid /\ r.deleted = 1) => delete_todo(store, tid) = store

C5_Witness ==
    /\ \E r \in store : r.done = 1
    /\ \E r \in store : r.deleted = 1

\* a key is being handled in the dashboard
InDashboard == pc = "getch" /\ view = "dashboard"

\* C6: in the dashboard with N >= 1 visible tasks, up gives
\* (cursor - 1) mod N (N-1 from 0) and down (cursor + 1) mod N (0 from N-1);
\* with no visible task the cursor stays; the store, the predicate and the
\* view are never changed by a cursor key.
C6_MoveCursorWraps ==
    [][(InDashboard /\ ch' \in {"KEY_UP", "KEY_DOWN"}) =>
         LET n == Len(draw_dashboard(store, where_clause, params))
         IN  /\ (n >= 1 /\ ch' = "KEY_UP") =>
                   /\ cursor_idx' = (cursor_idx - 1) % n
                   /\ cursor_idx' = IF cursor_idx = 0 THEN n - 1 ELSE cursor_idx - 1
             /\ (n >= 1 /\ ch' = "KEY_DOWN") =>
                   /\ cursor_idx' = (cursor_idx + 1) % n
                   /\ cursor_idx' = IF cursor_idx = n - 1 THEN 0 ELSE cursor_idx + 1
             /\ n = 0 => cursor_idx' = cursor_idx
             /\ UNCHANGED <<store, where_clause, params, subtitle, view>>]_vars

C6_Witness == Rendered /\ ch = "KEY_UP" /\ Len(todos) = 2 /\ cursor_idx = 1

\* C7: an empty filter or search text changes neither the predicate, the
\* subtitle, the cursor, the view nor the store; clearing the filter sets
\* the predicate to none, the subtitle to empty and the cursor to 0.
C7_EmptyInputNoOpClearResets ==
    [][/\ (InDashboard /\ ch' \in {"f", "/"} /\ getstr' = <<>>) =>
             UNCHANGED <<where_clause, params, subtitle, cursor_idx, view, store>>
       /\ (InDashboard /\ ch' = "b") =>
             /\ where_clause' = w_none /\ params' = <<>>
             /\ subtitle' = <<>> /\ cursor_idx' = 0
             /\ UNCHANGED <<view, store>>]_vars

C7_Witness ==
    /\ Rendered /\ ch = "f" /\ getstr = <<>>
    /\ where_clause = w_category /\ params = <<c_work>>
    /\ subtitle = s_filtered \o c_work
    /\ cursor_idx = 1

\* C8 as stated: an add in the dashboard, whatever the predicate, the cursor
\* and the three texts, inserts exactly one row, not done and not deleted,
\* with an id above every id in use, changes no other row, clears the
\* predicate and the subtitle, puts the cursor at 0, and the next dashboard
\* list starts with the new row.
C8_AddInsertsOne ==
    [][(InDashboard /\ ch' = "a") =>
         /\ \E n \in store' :
               /\ n \notin store /\ store' = store \cup {n}
               /\ n.done = 0 /\ n.deleted = 0
               /\ \A q \in store : q.id < n.id
               /\ todos' # <<>> /\ todos'[1] = n
         /\ where_clause' = w_none /\ params' = <<>> /\ subtitle' = <<>>
         /\ cursor_idx' = 0 /\ view' = "dashboard"]_vars

\* C9: going to the completed view and back lands in the dashboard with the
\* cursor at 0 and the predicate and subtitle as they were; neither switch,
\* nor anything done in between, touches them or the store.
C9_SwitchKeepsPredicate ==
    [][/\ (InDashboard /\ ch' = "c") =>
             /\ view' = "completed"
             /\ UNCHANGED <<store, where_clause, params, subtitle>>
       /\ (pc = "getch" /\ view = "completed" /\ ch' = "b") =>
             /\ view' = "dashboard" /\ cursor_idx' = 0
             /\ UNCHANGED <<store, where_clause, params, subtitle>>
       /\ (view = "completed" /\ view' = "completed") =>
             UNCHANGED <<store, where_clause, params, subtitle>>]_vars

C9_Witness ==
    /\ Rendered /\ ch = "b" /\ cursor_idx = 0
    /\ where_clause = w_title /\ subtitle # <<>> /\ Len(todos) = 2

\* C10 as stated: for 0 <= completed <= total the progress shown is
\* floor(completed * 100 / total), or 0 when total = 0, and lies in 0..100.
C10_ProgressIsFloor ==
    pc = "drawn" =>
        /\ progress = (IF total > 0 THEN (done * 100) \div total ELSE 0)
        /\ progress \in 0..100

(***************************************************************************)
(* add_todo on its own: one call on the empty table with a due text from   *)
(* a bounded set, so that the stored due column shows what parse_due_date  *)
(* returned, and pc = "error" that it raised.                              *)
(***************************************************************************)
DueBodies ==
    {<<>>,
     s_today, <<"T","o","d","a","y">>, <<"T","O","D","A","Y">>,
     s_tomorrow, <<"T","o","m","o","r","r","o","w">>,
     <<"+","3","d">>, <<"+","2","w">>, <<"+","0","d">>, <<"+","3","D">>,
     <<"+","1","0","W">>, <<"+","0","2","1","d">>, <<"+","3","6","6","d">>,
     <<"+","d">>, <<"+","w">>, <<"+">>, <<"+","x","d">>, <<"+","d","w">>,
     s_far, <<"+","5","0","0","0","0","0","w">>, <<"+","^2","d">>,
     <<"x","y","z","z","y">>, s_Xyzzy, <<"s","o","o","n"," ","O","K">>,
     <<"2","0","2","4","-","0","2","-","2","9">>}

DuePadding == {<<>>, <<" ">>, <<"\t", " ">>}

DueTexts == {pre \o body \o post : pre \in DuePadding, body \in DueBodies, post \in DuePadding}

InitDue ==
    /\ store = {}
    /\ view = "dashboard"
    /\ cursor_idx = 0
    /\ where_clause = w_none
    /\ params = <<>>
    /\ subtitle = <<>>
    /\ todos = <<>>
    /\ ch = "a"
    /\ getstr \in DueTexts
    /\ pc = "add_todo"
    /\ total = 0 /\ done = 0 /\ progress = 0

CallAddTodo ==
    /\ pc = "add_todo"
    /\ LET parsed == parse_due_date(getstr, Today)
       IN  IF parsed.raised
           THEN pc' = "error" /\ UNCHANGED store
           ELSE /\ store' = add_todo(store, t_a, c_work, parsed.value)
                /\ pc' = "added"
    /\ UNCHANGED <<view, cursor_idx, where_clause, params, subtitle, todos,
                   ch, getstr, total, done, progress>>

NextDue == CallAddTodo

SpecDue == InitDue /\ [][NextDue]_vars

\* the call of add_todo is over, by return or by exception
DueCalled == pc \in {"added", "error"}

\* the due column the call stored, if it stored a row
StoredDue(d) == pc = "added" /\ \E r \in store : r.due = d

\* the text the rules of parse_due_date are matched against
Normal == lower(strip(getstr))

IsOffset(s, unit) ==
    /\ Len(s) >= 3 /\ s[1] = "+" /\ s[Len(s)] = unit
    /\ \A i \in 2..(Len(s) - 1) : s[i] \in Range(DecimalChars)

\* C11 as stated: on the trimmed, lower-cased text the result is "" for the
\* empty text, today for "today", today + 1 for "tomorrow", today + N days
\* for "+<N>d" and today + 7N days for "+<N>w", each an ISO date; with
\* today = 2025-01-10 the texts today, tomorrow, +3d, +2w give 2025-01-10,
\* 2025-01-11, 2025-01-13, 2025-01-24.
C11_KeywordAndOffsetRules ==
    DueCalled =>
        /\ Normal = <<>> => StoredDue(<<>>)
        /\ Normal = s_today => StoredDue(<<"2","0","2","5","-","0","1","-","1","0">>)
        /\ Normal = s_tomorrow => StoredDue(<<"2","0","2","5","-","0","1","-","1","1">>)
        /\ Normal = <<"+","3","d">> => StoredDue(<<"2","0","2","5","-","0","1","-","1","3">>)
        /\ Normal = <<"+","2","w">> => StoredDue(<<"2","0","2","5","-","0","1","-","2","4">>)
        /\ IsOffset(Normal, "d") =>
              /\ pc = "added"
              /\ \E r \in store : IsIsoDate(r.due)
                     /\ date_parser_parse(r.due).date = Today + int(Inner(Normal))
        /\ IsOffset(Normal, "w") =>
              /\ pc = "added"
              /\ \E r \in store : IsIsoDate(r.due)
                     /\ date_parser_parse(r.due).date = Today + 7 * int(Inner(Normal))

\* no keyword or offset rule applies and the date parser gives up
Unparsed ==
    /\ Normal # <<>> /\ Normal # s_today /\ Normal # s_tomorrow
    /\ ~(startswith(Normal, "+") /\ endswith(Normal, "d") /\ isdigit(Inner(Normal)))
    /\ ~(startswith(Normal, "+") /\ endswith(Normal, "w") /\ isdigit(Inner(Normal)))
    /\ ~IsIsoDate(Normal)

\* C12 as stated: a text that matches no rule and that the date parser
\* rejects comes back as typed, trimmed of surrounding whitespace, its letter
\* case kept.
C12_UnparsedKeepsCase ==
    (DueCalled /\ Unparsed) => StoredDue(strip(getstr))

\* C13 as stated: parse_due_date returns a string for every text, however
\* large the offset, so no add ends in an exception.
C13_NormalizeTotal == pc # "error"

\* C14: a step never clears done or deleted, never drops a row and never
\* changes the id, title, category or due of a row it finds.
C14_FlagsOneWayRowsKept ==
    [][/\ \A r \in store : \E q \in store' :
              /\ q.id = r.id /\ q.title = r.title
              /\ q.category = r.category /\ q.due = r.due
              /\ q.done >= r.done /\ q.deleted >= r.deleted
       /\ Ids(store) \subseteq Ids(store')
       /\ Cardinality(Ids(store')) = Cardinality(store')]_vars

C14_Witness ==
    /\ pc = "getch" /\ ch = "KEY_DOWN"
    /\ \E r \in store : r.done = 1
    /\ \E r \in store : r.deleted = 1

\* C15: the predicate is always exactly one of none, category = tag and
\* title LIKE %query%, with the subtitle that belongs to it, the subtitle
\* being empty exactly for none; a non-empty filter or search text replaces
\* the predicate whole, sets its subtitle and puts the cursor at 0.
C15_OnePredicateAtATime ==
    /\ [](/\ \/ where_clause = w_none /\ params = <<>> /\ subtitle = <<>>
             \/ /\ where_clause = w_category /\ Len(params) = 1
                /\ params[1] # <<>> /\ subtitle = s_filtered \o params[1]
             \/ /\ where_clause = w_title /\ Len(params) = 1
                /\ \E q \in SearchInputs \ {<<>>} :
                      /\ params[1] = <<"%">> \o q \o <<"%">>
                      /\ subtitle = s_search \o q \o <<"'">>
          /\ subtitle = <<>> <=> where_clause = w_none)
    /\ [][/\ (InDashboard /\ ch' = "f" /\ getstr' # <<>>) =>
                /\ where_clause' = w_category /\ params' = <<getstr'>>
                /\ subtitle' = s_filtered \o getstr' /\ cursor_idx' = 0
          /\ (InDashboard /\ ch' = "/" /\ getstr' # <<>>) =>
                /\ where_clause' = w_title /\ params' = <<<<"%">> \o getstr' \o <<"%">>>>
                /\ subtitle' = s_search \o getstr' \o <<"'">> /\ cursor_idx' = 0]_vars

C15_Witness ==
    /\ Rendered /\ ch = "/" /\ getstr = <<"a">>
    /\ where_clause = w_title /\ cursor_idx = 0 /\ Len(todos) = 2

\* C17: `d` and `x` on a non-empty dashboard list change exactly the row at
\* the cursor of the list just drawn, a row neither done nor deleted that
\* matches the predicate, by setting its done (its deleted) flag; all other
\* rows, the view, the predicate and the subtitle stay and the cursor goes
\* to 0; on an empty list they change nothing.
C17_ActsOnRowAtCursor ==
    [][(InDashboard /\ ch' \in {"d", "x"}) =>
         LET l == draw_dashboard(store, where_clause, params)
         IN  IF l = <<>>
             THEN UNCHANGED <<store, view, cursor_idx, where_clause, params, subtitle, pc>>
             ELSE /\ cursor_idx < Len(l)
                  /\ LET t == l[cursor_idx + 1]
                     IN  /\ t \in store /\ t.done = 0 /\ t.deleted = 0
                         /\ Where(t, where_clause, params)
                         /\ store' = (store \ {t}) \cup
                               {IF ch' = "d" THEN [t EXCEPT !.done = 1]
                                             ELSE [t EXCEPT !.deleted = 1]}
                  /\ cursor_idx' = 0
                  /\ UNCHANGED <<view, where_clause, params, subtitle, pc>>]_vars

C17_Witness ==
    /\ Rendered /\ ch = "d" /\ Cardinality(store) = 2
    /\ Row(store, 1).done = 1 /\ Row(store, 2).done = 0
    /\ \A r \in store : r.deleted = 0

\* C18: whenever the dashboard is drawn the cursor is 0 on an empty list and
\* a valid index of a non-empty one, so todos[cursor_idx] never fails.
C18_CursorInBounds ==
    Rendered =>
        /\ todos = <<>> => cursor_idx = 0
        /\ todos # <<>> => (0 <= cursor_idx /\ cursor_idx < Len(todos))
        /\ todos # <<>> => ~Selected.raised

C18_Witness ==
    /\ Rendered /\ where_clause = w_title
    /\ Len(todos) = 2 /\ cursor_idx = 1 /\ ch = "KEY_DOWN"

\* C19: in the completed view every key but `b` and `q` leaves the store,
\* the view, the cursor, the predicate and the subtitle as they are, and
\* the list on show is every done, non-deleted row whatever the predicate;
\* `q` ends the session from either view and nothing follows it.
C19_CompletedViewIgnoresKeys ==
    /\ [][/\ (pc = "getch" /\ view = "completed" /\ ch' \notin {"b", "q"}) =>
                UNCHANGED <<store, view, cursor_idx, where_clause, params, subtitle, pc>>
          /\ (pc = "getch" /\ ch' = "q") =>
                /\ pc' = "quit"
                /\ UNCHANGED <<store, view, cursor_idx, where_clause, params, subtitle>>
          /\ pc = "quit" => UNCHANGED vars]_vars
    /\ [](view = "completed" =>
             ListIds(draw_completed(store)) = {r.id : r \in {q \in store : q.done = 1 /\ q.deleted = 0}})

C19_Witness ==
    /\ pc = "getch" /\ view = "completed" /\ ch = "a"
    /\ where_clause = w_category /\ cursor_idx = 1

\* q occurs in t as it is written, letter case included
Contains(t, q) == \E i \in 0..(Len(t) - Len(q)) : SubSeq(t, i + 1, i + Len(q)) = q

\* C16 as stated: after a search for a non-empty q the dashboard lists
\* exactly the rows not done and not deleted whose title contains q as a
\* literal, case-sensitive substring, whatever characters q holds; after a
\* filter on tag, exactly those whose category equals tag.
C16_SearchIsLiteralSubstring ==
    /\ (Rendered /\ ch = "/" /\ getstr # <<>>) =>
          Range(todos) = {r \in store : r.done = 0 /\ r.deleted = 0 /\ Contains(r.title, getstr)}
    /\ (Rendered /\ ch = "f" /\ getstr # <<>>) =>
          Range(todos) = {r \in store : r.done = 0 /\ r.deleted = 0 /\ r.category = getstr}

CompletedIds(st) == {r.id : r \in {q \in st : q.done = 1 /\ q.deleted = 0}}

====
